---- MODULE Spec2Model ----
(***************************************************************************)
(* The HTTP client wrapper of the front-end: the axios instance `api`, its *)
(* request and response interceptors, and the eight operations of          *)
(* `apiClient`.  localStorage, the console and the backend are the         *)
(* environment: the token is written by the login flow, the backend picks  *)
(* the reply of every request.                                             *)
(*                                                                         *)
(* An optional JavaScript value (undefined / null or a value) is a         *)
(* sequence of length 0 or 1.                                              *)
(***************************************************************************)
EXTENDS Integers, Sequences, FiniteSets, Bags, TLC

VARIABLES
    localStorage,   \* the browser's storage: a function from the keys present to their strings
    calls,          \* one record per invocation of an apiClient operation
    console         \* the entries written by console.error, as a bag (their order is not kept)

vars == <<localStorage, calls, console>>

\* Number of invocations of apiClient operations in a behaviour; all of them
\* may be in flight at once.
MaxCalls == 2

CallIds == 1..MaxCalls

\* Token strings the login flow may store; "" is a string localStorage can hold.
Tokens == {"", "tokA", "tokB"}

\* Bodies the backend may answer with (opaque JSON, here center-point shaped).
Bodies == {[lat |-> 2, lng |-> 3, count |-> 2], [lat |-> 0, lng |-> 0, count |-> 0]}

\* HTTP error statuses the backend may answer with, and the body it sends along.
ErrorStatuses == {401, 500}
ErrorBody == [message |-> "error"]

\* Arguments the callers pass.
Urls == {"/items"}
Payload == [name |-> "home"]
Queries == {"seoul station"}
Coord == [lat |-> 1, lng |-> 2]
LocationLists == {<< >>, <<[lat |-> 1, lng |-> 2], [lat |-> 3, lng |-> 4]>>}

None == << >>
Some(v) == <<v>>

\* The promise an operation returned, before it settles.
NoResult == [state |-> "pending", value |-> None]

\* A call that has not been made yet.  pc is where the call stands, config the
\* request config while the request is under way, requests the number of
\* requests sent for it, reply what the network delivered, removes the number
\* of removeItem calls made for it, settles the number of times its promise
\* settled, result the state of its promise.
IdleCall ==
    [pc |-> "idle", op |-> "none", args |-> << >>, config |-> None,
     requests |-> 0, reply |-> None, removes |-> 0, settles |-> 0, result |-> NoResult]

-----------------------------------------------------------------------------
(* localStorage *)

getItem(ls, key) == IF key \in DOMAIN ls THEN Some(ls[key]) ELSE None

setItem(ls, key, value) == [k \in (DOMAIN ls) \cup {key} |-> IF k = key THEN value ELSE ls[k]]

removeItem(ls, key) == [k \in (DOMAIN ls) \ {key} |-> ls[k]]

\* JavaScript truthiness of a `string | null`: null and "" are falsy.
Truthy(opt) == opt # None /\ opt[1] # ""

-----------------------------------------------------------------------------
(* The axios instance *)

BASE_URL == "/api"

api ==
    [baseURL |-> BASE_URL,
     timeout |-> 10000,
     headers |-> ("Content-Type" :> "application/json")]

\* The config axios hands to the request interceptors: the instance defaults
\* merged with what the operation passed.
RequestConfig(method, url, params, data) ==
    [baseURL |-> api.baseURL,
     timeout |-> api.timeout,
     headers |-> api.headers,
     method |-> method,
     url |-> url,
     params |-> params,
     data |-> data]

\* Variant of RequestFulfilled that tests the token against null only
\* (token !== null), so that an empty stored string is sent too.
RequestFulfilledNonNull(config, ls) ==
    LET token == getItem(ls, "token") IN
    IF token # None
    THEN [config EXCEPT !.headers =
              [h \in (DOMAIN @) \cup {"Authorization"} |->
                  IF h = "Authorization" THEN "Bearer " \o token[1] ELSE @[h]]]
    ELSE config

\* Request interceptor, fulfilled handler.
RequestFulfilled(config, ls) ==
    LET token == getItem(ls, "token") IN
    IF Truthy(token)
    THEN [config EXCEPT !.headers =
              [h \in (DOMAIN @) \cup {"Authorization"} |->
                  IF h = "Authorization" THEN "Bearer " \o token[1] ELSE @[h]]]
    ELSE config

\* error.response?.status === 401
IsUnauthorized(error) == error.response # None /\ error.response[1].status = 401

\* Response interceptor, fulfilled handler.
ResponseFulfilled(response) == response

\* Variant of ResponseRejected that keeps the token on a 401.
ResponseRejectedNoRemove(error, ls) ==
    [localStorage |-> ls, removes |-> 0, reason |-> error]

\* Variant of ResponseRejected that clears the token on every error status.
ResponseRejectedAnyStatus(error, ls) ==
    IF error.response # None
    THEN [localStorage |-> removeItem(ls, "token"), removes |-> 1, reason |-> error]
    ELSE [localStorage |-> ls, removes |-> 0, reason |-> error]

\* Variant of ResponseRejected that stores a refreshed token on a 401.
ResponseRejectedRefreshing(error, ls) ==
    IF IsUnauthorized(error)
    THEN [localStorage |-> setItem(ls, "token", "tokB"), removes |-> 0, reason |-> error]
    ELSE [localStorage |-> ls, removes |-> 0, reason |-> error]

\* Variant of ResponseRejected that clears the token only when it is the one
\* the failed request was sent with.
ResponseRejectedOwnToken(error, ls) ==
    LET sent == calls[error.request].config[1].headers
        token == getItem(ls, "token")
    IN
    IF /\ IsUnauthorized(error)
       /\ token # None
       /\ "Authorization" \in DOMAIN sent
       /\ sent["Authorization"] = "Bearer " \o token[1]
    THEN [localStorage |-> removeItem(ls, "token"), removes |-> 1, reason |-> error]
    ELSE [localStorage |-> ls, removes |-> 0, reason |-> error]

\* Response interceptor, rejected handler: the storage it leaves, the number of
\* removeItem calls it made, and the error it rejects with.
ResponseRejected(error, ls) ==
    IF IsUnauthorized(error)
    THEN [localStorage |-> removeItem(ls, "token"), removes |-> 1, reason |-> error]
    ELSE [localStorage |-> ls, removes |-> 0, reason |-> error]

-----------------------------------------------------------------------------
(* apiClient *)

Operations ==
    {"get", "post", "put", "delete", "searchAddress", "findNearbyStations",
     "calculateCenterPoint", "reverseGeocode"}

\* The first argument of the console.error of each operation's catch block.
\* The source text is Korean; each Hangul syllable is written as its code point.
FailureMessage(op) ==
    CASE op = "get"                  -> "GET U+C694U+CCAD U+C2E4U+D328:"
      [] op = "post"                 -> "POST U+C694U+CCAD U+C2E4U+D328:"
      [] op = "put"                  -> "PUT U+C694U+CCAD U+C2E4U+D328:"
      [] op = "delete"               -> "DELETE U+C694U+CCAD U+C2E4U+D328:"
      [] op = "searchAddress"        -> "U+C8FCU+C18C U+AC80U+C0C9 U+C2E4U+D328:"
      [] op = "findNearbyStations"   -> "U+C9C0U+D558U+CCA0U+C5ED U+AC80U+C0C9 U+C2E4U+D328:"
      [] op = "calculateCenterPoint" -> "U+C911U+C2ECU+C810 U+ACC4U+C0B0 U+C2E4U+D328:"
      [] op = "reverseGeocode"       -> "U+B9ACU+BC84U+C2A4 U+C9C0U+C624U+CF54U+B529 U+C2E4U+D328:"

\* The try block after the await: the promise of the operation is fulfilled
\* with response.data and nothing is logged.
OperationReturn(op, response) ==
    [state |-> "fulfilled", value |-> Some(response.data), log |-> EmptyBag]

\* Variant of OperationCatch that throws a new error built from the caught one.
OperationCatchWrapping(op, error) ==
    [state |-> "rejected",
     value |-> Some([response |-> Some([data |-> ErrorBody, status |-> 0]),
                     request |-> error.request]),
     log |-> SetToBag({[message |-> FailureMessage(op), error |-> error]})]

\* Variant of OperationCatch that rethrows without logging.
OperationCatchSilent(op, error) ==
    [state |-> "rejected", value |-> Some(error), log |-> EmptyBag]

\* The catch block: console.error(message, error); throw error.
OperationCatch(op, error) ==
    [state |-> "rejected", value |-> Some(error),
     log |-> SetToBag({[message |-> FailureMessage(op), error |-> error]})]

\* The synchronous part of an operation: it calls api.<method>(...), which
\* queues the request interceptor.
Invoke(c, op, args, config) ==
    /\ calls[c].pc = "idle"
    /\ IF c = 1 THEN TRUE ELSE calls[c - 1].pc # "idle"   \* ids are given in invocation order
    /\ calls' = [calls EXCEPT ![c] =
                    [@ EXCEPT !.pc = "pending", !.op = op, !.args = args,
                              !.config = Some(config)]]
    /\ UNCHANGED <<localStorage, console>>

get(c, url, params) ==
    Invoke(c, "get", <<url, params>>, RequestConfig("get", url, params, None))

post(c, url, data) ==
    Invoke(c, "post", <<url, data>>, RequestConfig("post", url, None, data))

put(c, url, data) ==
    Invoke(c, "put", <<url, data>>, RequestConfig("put", url, None, data))

delete(c, url) ==
    Invoke(c, "delete", <<url>>, RequestConfig("delete", url, None, None))

searchAddress(c, query) ==
    Invoke(c, "searchAddress", <<query>>,
           RequestConfig("get", "/naver-maps/search", Some([query |-> query]), None))

findNearbyStations(c, lat, lng) ==
    Invoke(c, "findNearbyStations", <<lat, lng>>,
           RequestConfig("get", "/naver-maps/nearby-stations",
                         Some([lat |-> lat, lng |-> lng]), None))

\* Variant of calculateCenterPoint that posts the locations inside an object.
calculateCenterPointWrapped(c, locations) ==
    Invoke(c, "calculateCenterPoint", <<locations>>,
           RequestConfig("post", "/naver-maps/center-point", None,
                         Some([locations |-> locations])))

calculateCenterPoint(c, locations) ==
    Invoke(c, "calculateCenterPoint", <<locations>>,
           RequestConfig("post", "/naver-maps/center-point", None, Some(locations)))

reverseGeocode(c, lat, lng) ==
    Invoke(c, "reverseGeocode", <<lat, lng>>,
           RequestConfig("get", "/naver-maps/reverse-geocode",
                         Some([lat |-> lat, lng |-> lng]), None))

-----------------------------------------------------------------------------
(* The request on its way out and the reply on its way back *)

\* The request interceptor runs on the config and axios sends the request.
Request(c) ==
    /\ calls[c].pc = "pending"
    /\ calls' = [calls EXCEPT ![c] =
                    [@ EXCEPT !.pc = "sent",
                              !.config = Some(RequestFulfilled(@[1], localStorage)),
                              !.requests = @ + 1]]
    /\ UNCHANGED <<localStorage, console>>

\* What the network can answer to the request of call c.
Responses == {[data |-> b, status |-> 200] : b \in Bodies}

\* An error carries the response when the backend answered with an error
\* status, and none when the request timed out or the connection failed.
Errors(c) ==
    {[response |-> None, request |-> c]}
    \cup {[response |-> Some([data |-> ErrorBody, status |-> s]), request |-> c] :
              s \in ErrorStatuses}

\* A 2xx response arrives: the response interceptor passes it on and the
\* operation returns its data.
ReceiveResponse(c, response) ==
    /\ calls[c].pc = "sent"
    /\ LET r == OperationReturn(calls[c].op, ResponseFulfilled(response)) IN
       /\ calls' = [calls EXCEPT ![c] =
                       [@ EXCEPT !.pc = "settled", !.config = None,
                                 !.reply = Some([value |-> response, ok |-> TRUE]),
                                 !.settles = @ + 1,
                                 !.result = [state |-> r.state, value |-> r.value]]]
       /\ console' = console (+) r.log
    /\ UNCHANGED localStorage

\* Variant of ReceiveError whose interceptor sends the request again after a 401
\* instead of rejecting.
ReceiveErrorRetrying(c, error) ==
    /\ calls[c].pc = "sent"
    /\ LET i == ResponseRejected(error, localStorage)
           r == OperationCatch(calls[c].op, i.reason)
       IN
       /\ localStorage' = i.localStorage
       /\ IF IsUnauthorized(error)
          THEN /\ calls' = [calls EXCEPT ![c] =
                               [@ EXCEPT !.removes = @ + i.removes,
                                         !.requests = @ + 1]]
               /\ console' = console
          ELSE /\ calls' = [calls EXCEPT ![c] =
                               [@ EXCEPT !.pc = "settled", !.config = None,
                                         !.reply = Some([value |-> error, ok |-> FALSE]),
                                         !.removes = @ + i.removes,
                                         !.settles = @ + 1,
                                         !.result = [state |-> r.state, value |-> r.value]]]
               /\ console' = console (+) r.log

\* Variant of ReceiveError that, after a 401, aborts the requests still in flight.
ReceiveErrorAborting(c, error) ==
    /\ calls[c].pc = "sent"
    /\ LET i == ResponseRejected(error, localStorage)
           r == OperationCatch(calls[c].op, i.reason)
           Aborted(d) == [response |-> None, request |-> d]
       IN
       /\ localStorage' = i.localStorage
       /\ calls' = [d \in CallIds |->
                       IF d = c
                       THEN [calls[d] EXCEPT !.pc = "settled", !.config = None,
                                 !.reply = Some([value |-> error, ok |-> FALSE]),
                                 !.removes = @ + i.removes,
                                 !.settles = @ + 1,
                                 !.result = [state |-> r.state, value |-> r.value]]
                       ELSE IF IsUnauthorized(error) /\ calls[d].pc = "sent"
                       THEN [calls[d] EXCEPT !.pc = "settled", !.config = None,
                                 !.settles = @ + 1,
                                 !.result = [state |-> "rejected", value |-> Some(Aborted(d))]]
                       ELSE calls[d]]
       /\ console' = console (+) r.log

\* The request fails (an error status, a timeout, no connection): the response
\* interceptor's rejected handler runs, then the operation's catch block.
ReceiveError(c, error) ==
    /\ calls[c].pc = "sent"
    /\ LET i == ResponseRejected(error, localStorage)
           r == OperationCatch(calls[c].op, i.reason)
       IN
       /\ localStorage' = i.localStorage
       /\ calls' = [calls EXCEPT ![c] =
                       [@ EXCEPT !.pc = "settled", !.config = None,
                                 !.reply = Some([value |-> error, ok |-> FALSE]),
                                 !.removes = @ + i.removes,
                                 !.settles = @ + 1,
                                 !.result = [state |-> r.state, value |-> r.value]]]
       /\ console' = console (+) r.log

\* The login flow, outside this layer, stores a token.
Login(t) ==
    /\ getItem(localStorage, "token") # Some(t)
    /\ localStorage' = setItem(localStorage, "token", t)
    /\ UNCHANGED <<calls, console>>

-----------------------------------------------------------------------------

Init ==
    /\ localStorage \in {<< >>} \cup {setItem(<< >>, "token", t) : t \in Tokens}
    /\ calls = [c \in CallIds |-> IdleCall]
    /\ console = EmptyBag

Next ==
    \/ \E c \in CallIds, u \in Urls : get(c, u, None)
    \/ \E c \in CallIds, u \in Urls : post(c, u, Some(Payload))
    \/ \E c \in CallIds, u \in Urls : put(c, u, Some(Payload))
    \/ \E c \in CallIds, u \in Urls : delete(c, u)
    \/ \E c \in CallIds, q \in Queries : searchAddress(c, q)
    \/ \E c \in CallIds : findNearbyStations(c, Coord.lat, Coord.lng)
    \/ \E c \in CallIds, l \in LocationLists : calculateCenterPoint(c, l)
    \/ \E c \in CallIds : reverseGeocode(c, Coord.lat, Coord.lng)
    \/ \E c \in CallIds : Request(c)
    \/ \E c \in CallIds, r \in Responses : ReceiveResponse(c, r)
    \/ \E c \in CallIds : \E e \in Errors(c) : ReceiveError(c, e)
    \/ \E t \in Tokens : Login(t)

Spec == Init /\ [][Next]_vars

-----------------------------------------------------------------------------
(* Properties *)

IsSent(c) == calls[c].pc = "sent"
IsSettled(c) == calls[c].pc = "settled"

\* The Authorization header of the request of call c, if it has one.
Authorization(call) ==
    IF call.config # None /\ "Authorization" \in DOMAIN call.config[1].headers
    THEN Some(call.config[1].headers["Authorization"])
    ELSE None

RepliedWith(c, status) ==
    /\ IsSettled(c)
    /\ calls[c].reply # None
    /\ ~calls[c].reply[1].ok
    /\ calls[c].reply[1].value.response # None
    /\ calls[c].reply[1].value.response[1].status = status

Succeeded(c) == IsSettled(c) /\ calls[c].reply # None /\ calls[c].reply[1].ok
Failed(c) == IsSettled(c) /\ calls[c].reply # None /\ ~calls[c].reply[1].ok

RECURSIVE Copies(_, _)
Copies(bag, entries) ==
    IF entries = {} THEN 0
    ELSE LET e == CHOOSE x \in entries : TRUE
         IN  CopiesIn(e, bag) + Copies(bag, entries \ {e})

\* Number of console entries written for call c.
EntriesOf(c) == Copies(console, {e \in BagToSet(console) : e.error.request = c})

\* C1 as stated: whenever the request interceptor runs, a token present in
\* storage gives the header "Bearer " followed by that token, and an absent
\* token gives no Authorization header.
C1_HeaderWhenPresent ==
    [][\A c \in CallIds :
          Request(c) =>
              LET token == getItem(localStorage, "token") IN
              /\ token # None => Authorization(calls'[c]) = Some("Bearer " \o token[1])
              /\ token = None => Authorization(calls'[c]) = None]_vars

\* C1 amended: whenever the request interceptor runs, a non-empty token in
\* storage gives the header "Bearer " followed by that token; an absent token
\* or an empty stored string gives no Authorization header.
C1_HeaderWhenNonEmpty ==
    [][\A c \in CallIds :
          (calls[c].pc = "pending" /\ calls'[c].pc = "sent") =>
              LET token == getItem(localStorage, "token") IN
              /\ (token # None /\ token[1] # "") =>
                     Authorization(calls'[c]) = Some("Bearer " \o token[1])
              /\ (token = None \/ token = Some("")) =>
                     Authorization(calls'[c]) = None]_vars

C1_Witness ==
    \E c, d \in CallIds :
        /\ IsSent(c) /\ Authorization(calls[c]) = Some("Bearer tokA")
        /\ IsSent(d) /\ Authorization(calls[d]) = None
        /\ getItem(localStorage, "token") = Some("")

\* C2: a call answered with status 401 has had removeItem called exactly once
\* for it, and is rejected with the very error the network delivered.
C2_UnauthorizedClearsOnceAndRejects ==
    \A c \in CallIds :
        RepliedWith(c, 401) =>
            /\ calls[c].removes = 1
            /\ calls[c].result = [state |-> "rejected", value |-> Some(calls[c].reply[1].value)]

C2_Witness ==
    \E c \in CallIds :
        /\ RepliedWith(c, 401)
        /\ calls[c].removes = 1
        /\ calls[c].result.state = "rejected"
        /\ "token" \notin DOMAIN localStorage

\* C3: a step in which a call is settled by anything but a 401 (a response, an
\* other error status, or a failure without response) leaves localStorage as
\* it was.
C3_OtherRepliesLeaveStorage ==
    [][\A c \in CallIds :
          (IsSent(c) /\ IsSettled(c)' /\ ~RepliedWith(c, 401)') =>
              localStorage' = localStorage]_vars

C3_Witness ==
    \E c, d \in CallIds :
        /\ RepliedWith(c, 500)
        /\ Failed(d) /\ calls[d].reply[1].value.response = None
        /\ calls[c].removes = 0 /\ calls[d].removes = 0
        /\ getItem(localStorage, "token") = Some("tokA")

\* C4: every call settles exactly once; it is fulfilled with the data of the
\* response when the network call succeeded, and rejected with the very error
\* the network delivered when it failed.
C4_SettlesOnceWithBodyOrError ==
    \A c \in CallIds :
        /\ calls[c].settles = IF IsSettled(c) THEN 1 ELSE 0
        /\ ~IsSettled(c) => calls[c].result = NoResult
        /\ IsSettled(c) => calls[c].reply # None
        /\ Succeeded(c) =>
               calls[c].result =
                   [state |-> "fulfilled", value |-> Some(calls[c].reply[1].value.data)]
        /\ Failed(c) =>
               calls[c].result =
                   [state |-> "rejected", value |-> Some(calls[c].reply[1].value)]

C4_Witness ==
    \E c, d \in CallIds :
        /\ Succeeded(c)
        /\ calls[c].result = [state |-> "fulfilled",
                              value |-> Some([lat |-> 2, lng |-> 3, count |-> 2])]
        /\ Failed(d)
        /\ calls[d].result.state = "rejected"
        /\ calls[d].op \in {"get", "post", "put"}

\* C5: a failed call has exactly one console entry, the one with the message
\* of its operation and the error delivered, and it is there as soon as the
\* call is rejected; a call that has not failed has no console entry.
C5_OneLogPerFailure ==
    \A c \in CallIds :
        /\ Failed(c) =>
               /\ EntriesOf(c) = 1
               /\ CopiesIn([message |-> FailureMessage(calls[c].op),
                            error |-> calls[c].reply[1].value], console) = 1
        /\ calls[c].result.state = "rejected" => EntriesOf(c) = 1
        /\ ~Failed(c) => EntriesOf(c) = 0

C5_Witness ==
    \E c, d \in CallIds :
        /\ Failed(c) /\ EntriesOf(c) = 1
        /\ Succeeded(d) /\ EntriesOf(d) = 0

\* C6: a call has issued no request before its interceptor ran and exactly one
\* from then on, whatever the reply.
C6_OneRequestPerCall ==
    \A c \in CallIds :
        calls[c].requests = IF calls[c].pc \in {"sent", "settled"} THEN 1 ELSE 0

C6_Witness ==
    \E c, d \in CallIds :
        /\ RepliedWith(c, 401) /\ calls[c].requests = 1
        /\ Failed(d) /\ calls[d].reply[1].value.response = None /\ calls[d].requests = 1

\* C7: a step of this layer (one that moves a call) either leaves localStorage
\* as it was or takes the token out of it; it never stores a token.
C7_LayerOnlyRemovesToken ==
    [][calls' # calls =>
          \/ localStorage' = localStorage
          \/ /\ "token" \in DOMAIN localStorage
             /\ localStorage' = removeItem(localStorage, "token")]_vars

C7_Witness ==
    \E c, d \in CallIds :
        /\ RepliedWith(c, 401)
        /\ IsSettled(d) /\ ~RepliedWith(d, 401)
        /\ "token" \notin DOMAIN localStorage

\* C8: a request in flight stays as it was sent, header included, through
\* every step of the other calls, a 401 that clears the token among them; when
\* it leaves flight it is settled once, by its own reply.
C8_InFlightUntouched ==
    [][\A d \in CallIds :
          IsSent(d) =>
              \/ calls'[d] = calls[d]
              \/ /\ IsSettled(d)'
                 /\ calls'[d].settles = 1
                 /\ calls'[d].requests = 1
                 /\ calls'[d].reply # None
                 /\ calls'[d].result.value =
                        IF calls'[d].reply[1].ok
                        THEN Some(calls'[d].reply[1].value.data)
                        ELSE Some(calls'[d].reply[1].value)]_vars

C8_Witness ==
    \E c, d \in CallIds :
        /\ RepliedWith(c, 401) /\ calls[c].removes = 1
        /\ IsSent(d) /\ Authorization(calls[d]) = Some("Bearer tokA")
        /\ "token" \notin DOMAIN localStorage

\* C9: a calculateCenterPoint call is a POST to /naver-maps/center-point under
\* the base /api whose body is the sequence of locations it was given, and it
\* is fulfilled with the data of the response.
C9_CenterPointRequest ==
    \A c \in CallIds :
        calls[c].op = "calculateCenterPoint" =>
            /\ calls[c].pc \in {"pending", "sent"} =>
                   /\ calls[c].config[1].method = "post"
                   /\ calls[c].config[1].baseURL = "/api"
                   /\ calls[c].config[1].url = "/naver-maps/center-point"
                   /\ calls[c].config[1].data = Some(calls[c].args[1])
            /\ calls[c].requests = IF calls[c].pc \in {"sent", "settled"} THEN 1 ELSE 0
            /\ Succeeded(c) =>
                   calls[c].result =
                       [state |-> "fulfilled", value |-> Some(calls[c].reply[1].value.data)]

C9_Witness ==
    \E c, d \in CallIds :
        /\ calls[c].op = "calculateCenterPoint"
        /\ calls[c].args[1] = <<[lat |-> 1, lng |-> 2], [lat |-> 3, lng |-> 4]>>
        /\ Succeeded(c)
        /\ calls[c].result.value = Some([lat |-> 2, lng |-> 3, count |-> 2])
        /\ calls[d].op = "calculateCenterPoint"
        /\ calls[d].args[1] = << >>
        /\ IsSent(d)
        /\ calls[d].config[1].data = Some(<< >>)

\* C10: a step that settles a call with a 401 leaves no token in localStorage,
\* whatever header the failed request carried and whatever token is stored.
C10_UnauthorizedClearsAnyToken ==
    [][\A c \in CallIds :
          (IsSent(c) /\ RepliedWith(c, 401)') => "token" \notin DOMAIN localStorage']_vars

\* Two requests in flight whose 401 clears a token they did not carry: one sent
\* without Authorization header, one sent with an older token.
C10_Witness ==
    \E c, d \in CallIds :
        /\ IsSent(c) /\ Authorization(calls[c]) = None
        /\ IsSent(d) /\ Authorization(calls[d]) = Some("Bearer tokA")
        /\ getItem(localStorage, "token") = Some("tokB")

====
